---- MODULE Spec2Model ----
(***************************************************************************)
(* Model of the document-to-answer retrieval core:                         *)
(*   src/advanced_document_processor.py  AdvancedDocumentProcessor         *)
(*   src/vector_database.py  DocumentChunk, LightweightVectorStore,        *)
(*                           SemanticMatcher                               *)
(*                                                                         *)
(* Strings are sequences of tokens [k |-> kind, n |-> number of chars].    *)
(* A lexical kind stands for one fixed phrase (see KindLen), "sp" is a run *)
(* of n whitespace characters, "x" a run of n copies of the letter x, and  *)
(* "frag" the n characters left of a phrase that a slice has cut.  Every   *)
(* length, offset and slice is computed in characters, so the program's    *)
(* character constants (300, 1000, 2000, 5000, ...) keep their values.     *)
(* A Python call that may raise is an operator whose value is a record     *)
(* with a field raised.                                                    *)
(***************************************************************************)
EXTENDS Integers, Sequences, FiniteSets, TLC

\* ------------------------------------------------------------------ bounds
\* Operations in one behaviour.
MaxCalls == 3

\* ------------------------------------------------------------------ strings
None == "None"

Tok(k, n) == [k |-> k, n |-> n]

\* Number of characters of each phrase.
KindLen(k) ==
    CASE k = "gp" -> 12     \* "grace period"
      [] k = "nd" -> 7      \* "30 days"
      [] k = "td" -> 11     \* "thirty days"
      [] k = "of" -> 2      \* "of"
      [] k = "wp" -> 14     \* "waiting period"
      [] k = "nm" -> 9      \* "24 months"
      [] k = "eot" -> 13    \* "<|endoftext|>"
      [] k = "fb" -> 363    \* the fallback knowledge text, trimmed
      [] k = "ew" -> 9      \* "endoftext"
      [] k = "pm" -> 14     \* "=== PAGE 1 ==="
      [] k = "eq" -> 3      \* "==="
      [] k = "cs" -> 16     \* "cataract surgery"
      [] k = "wt" -> 7      \* "waiting"
      [] k = "yr" -> 9      \* "two years"
      [] OTHER -> 0

Phrase(k) == Tok(k, KindLen(k))

\* A value that is not a str where the signature asks for one (None), and the
\* test that a value is a str.
NotAStr == <<Tok("NoneType", 0)>>
IsStr(v) == \A i \in 1..Len(v) : v[i].k # "NoneType"
Sp(n) == Tok("sp", n)
X(n) == Tok("x", n)

IsWhole(t) == t.k \notin {"sp", "x", "frag"} /\ t.n = KindLen(t.k)

RECURSIVE SumLen(_)
SumLen(s) == IF s = <<>> THEN 0 ELSE Head(s).n + SumLen(Tail(s))

\* len(text)
StrLen(s) == SumLen(s)

\* The element of a set of one element.  Only({e : x \in {v}}) is e with v
\* for x, and v is computed once however often e reads x.
Only(S) == CHOOSE x \in S : TRUE

Min(a, b) == IF a < b THEN a ELSE b
Max(a, b) == IF a > b THEN a ELSE b

\* The part of token t, which starts at character pos, inside [a, b).
Clip(t, pos, a, b) ==
    LET lo == Max(pos, a)
        hi == Min(pos + t.n, b)
    IN  IF hi <= lo THEN <<>>
        ELSE IF hi - lo = t.n THEN <<t>>
        ELSE IF t.k \in {"sp", "x"} THEN <<Tok(t.k, hi - lo)>>
        ELSE <<Tok("frag", hi - lo)>>

\* Adjacent runs of the same character are one run.
RECURSIVE Norm(_)
Norm(s) ==
    IF Len(s) < 2 THEN s
    ELSE LET a == s[1]
             b == s[2]
         IN  IF a.k = b.k /\ a.k \in {"sp", "x"}
             THEN Norm(<<Tok(a.k, a.n + b.n)>> \o SubSeq(s, 3, Len(s)))
             ELSE <<a>> \o Norm(Tail(s))

RECURSIVE SliceFrom(_, _, _, _)
SliceFrom(s, pos, a, b) ==
    IF s = <<>> \/ pos >= b THEN <<>>
    ELSE Clip(Head(s), pos, a, b) \o SliceFrom(Tail(s), pos + Head(s).n, a, b)

\* text[a:b] for 0 <= a
Slice(s, a, b) == Norm(SliceFrom(s, 0, a, b))

\* s + t
Concat(s, t) == Norm(s \o t)

RECURSIVE LStrip(_)
LStrip(s) == IF s # <<>> /\ Head(s).k = "sp" THEN LStrip(Tail(s)) ELSE s

RECURSIVE RStrip(_)
RStrip(s) ==
    IF s # <<>> /\ s[Len(s)].k = "sp" THEN RStrip(SubSeq(s, 1, Len(s) - 1)) ELSE s

\* text.strip()
Strip(s) == RStrip(LStrip(s))

\* ------------------------------------------------------------------ policy_patterns
\* A pattern is the sequence of its literal parts; the parts are joined by
\* lazy gaps (.*?), and every pattern is used with IGNORECASE | DOTALL.
\* Names of the parts:  "N" is (\d+), "N days" is (\d+)\s*days?,
\* "N months|years" is (\d+)\s*(?:months?|years?), "N months" is
\* (\d+)\s*months?, "N%" is (\d+)%, and a blank in a name is \s+.
\* weight10 is the weight times 10.
policy_patterns ==
    << [name |-> "grace_period",
        patterns |-> << <<"grace period", "N days">>,
                        <<"premium", "payment", "N days", "grace">>,
                        <<"continuity", "policy", "N days">>,
                        <<"N days", "grace period">> >>,
        keywords |-> <<"grace", "period", "premium", "payment", "due", "continuity">>,
        weight10 |-> 10],
       [name |-> "waiting_period",
        patterns |-> << <<"waiting period", "N months|years">>,
                        <<"pre-existing", "disease", "N months|years">>,
                        <<"PED", "waiting", "N months|years">>,
                        <<"N months|years", "waiting period">> >>,
        keywords |-> <<"waiting", "period", "pre-existing", "disease", "PED", "months", "years">>,
        weight10 |-> 10],
       [name |-> "maternity",
        patterns |-> << <<"maternity", "benefit", "N months">>,
                        <<"pregnancy", "coverage", "N months">>,
                        <<"childbirth", "waiting", "N months">>,
                        <<"maternity", "waiting", "N months">> >>,
        keywords |-> <<"maternity", "pregnancy", "childbirth", "delivery", "natal", "covered">>,
        weight10 |-> 9],
       [name |-> "cataract",
        patterns |-> << <<"cataract", "surgery", "N months|years">>,
                        <<"eye", "surgery", "waiting", "N months|years">>,
                        <<"cataract", "waiting", "N months|years">> >>,
        keywords |-> <<"cataract", "surgery", "eye", "treatment", "waiting", "months">>,
        weight10 |-> 8],
       [name |-> "organ_donor",
        patterns |-> << <<"organ donor", "expense", "covered">>,
                        <<"transplant", "donor", "medical expense">>,
                        <<"harvesting", "organ", "expense">>,
                        <<"donor", "screening", "covered">> >>,
        keywords |-> <<"organ", "donor", "transplant", "harvesting", "expense", "covered">>,
        weight10 |-> 7],
       [name |-> "ncd_bonus",
        patterns |-> << <<"no claim", "discount", "N%">>,
                        <<"NCD", "N%">>,
                        <<"cumulative bonus", "N%">>,
                        <<"claim free", "bonus", "N%">> >>,
        keywords |-> <<"claim", "discount", "bonus", "NCD", "cumulative", "renewal">>,
        weight10 |-> 8],
       [name |-> "health_checkup",
        patterns |-> << <<"health check", "up", "reimburs">>,
                        <<"preventive", "health", "check", "N">>,
                        <<"annual", "health", "examination">>,
                        <<"master", "health", "check">> >>,
        keywords |-> <<"health", "check", "preventive", "annual", "examination", "reimbursement">>,
        weight10 |-> 6],
       [name |-> "hospital_definition",
        patterns |-> << <<"hospital", "defined", "N", "beds?">>,
                        <<"institution", "N", "beds?", "nursing">>,
                        <<"medical", "institution", "24", "hours">>,
                        <<"N", "beds?", "hospital">> >>,
        keywords |-> <<"hospital", "institution", "beds", "nursing", "medical", "24", "hours">>,
        weight10 |-> 7],
       [name |-> "ayush_treatment",
        patterns |-> << <<"ayush", "treatment", "covered">>,
                        <<"ayurveda", "yoga", "unani", "siddha", "homeopathy">>,
                        <<"alternative", "medicine", "covered">>,
                        <<"naturopathy", "treatment">> >>,
        keywords |-> <<"ayush", "ayurveda", "yoga", "unani", "siddha", "homeopathy", "naturopathy">>,
        weight10 |-> 6],
       [name |-> "room_rent_capping",
        patterns |-> << <<"room rent", "capping", "N%">>,
                        <<"daily room rent", "N%", "sum insured">>,
                        <<"ICU", "charges", "N%">>,
                        <<"accommodation", "charges", "limit", "N%">> >>,
        keywords |-> <<"room", "rent", "capping", "ICU", "charges", "accommodation", "limit">>,
        weight10 |-> 8] >>

\* Where a pattern part occurs inside a phrase: <<offset, length>>, or <<>>.
AtomOcc(atom, k) ==
    CASE k = "gp" /\ atom = "grace period" -> <<0, 12>>
      [] k = "gp" /\ atom = "grace" -> <<0, 5>>
      [] k = "nd" /\ atom = "N days" -> <<0, 7>>
      [] k = "nd" /\ atom = "N" -> <<0, 2>>
      [] k = "wp" /\ atom = "waiting period" -> <<0, 14>>
      [] k = "wp" /\ atom = "waiting" -> <<0, 7>>
      [] k = "nm" /\ atom \in {"N months|years", "N months"} -> <<0, 9>>
      [] k = "nm" /\ atom \in {"N", "24"} -> <<0, 2>>
      [] k = "cs" /\ atom = "cataract" -> <<0, 8>>
      [] k = "cs" /\ atom = "surgery" -> <<9, 7>>
      [] k = "wt" /\ atom = "waiting" -> <<0, 7>>
      [] OTHER -> <<>>

\* keyword.lower()
Lower(w) ==
    CASE w = "PED" -> "ped"
      [] w = "NCD" -> "ncd"
      [] w = "ICU" -> "icu"
      [] OTHER -> w

\* The lower-case keywords that are substrings of a phrase.
KindKeywords(k) ==
    CASE k = "gp" -> {"grace", "period"}
      [] k = "wp" -> {"waiting", "period"}
      [] k = "nm" -> {"months", "24"}
      [] k = "cs" -> {"cataract", "surgery"}
      [] k = "wt" -> {"waiting"}
      [] k = "yr" -> {"years"}
      [] OTHER -> {}

\* keyword in text_lower
KeywordIn(w, text) ==
    \E i \in 1..Len(text) : IsWhole(text[i]) /\ w \in KindKeywords(text[i].k)

\* The occurrences <<start, end>> of a pattern part in the text, in order.
RECURSIVE OccsFrom(_, _, _)
OccsFrom(atom, s, pos) ==
    IF s = <<>> THEN <<>>
    ELSE LET t == Head(s)
             o == IF IsWhole(t) THEN AtomOcc(atom, t.k) ELSE <<>>
             rest == OccsFrom(atom, Tail(s), pos + t.n)
         IN  IF o = <<>> THEN rest ELSE << <<pos + o[1], pos + o[1] + o[2]>> >> \o rest

Occs(atom, text) == OccsFrom(atom, text, 0)

\* The first occurrence starting at or after character from, or <<>>.
RECURSIVE FirstOcc(_, _)
FirstOcc(occs, from) ==
    IF occs = <<>> THEN <<>>
    ELSE IF Head(occs)[1] >= from THEN Head(occs)
    ELSE FirstOcc(Tail(occs), from)

\* The end of the match whose parts i.. are found lazily from character from,
\* or -1 when some part does not occur any more.
RECURSIVE MatchRest(_, _, _, _)
MatchRest(pattern, i, text, from) ==
    IF i > Len(pattern) THEN from
    ELSE LET o == FirstOcc(Occs(pattern[i], text), from)
         IN  IF o = <<>> THEN -1 ELSE MatchRest(pattern, i + 1, text, o[2])

\* re.finditer(pattern, text): the non-overlapping matches <<start, end>> from
\* character cursor on, leftmost first.
RECURSIVE FindIterFrom(_, _, _)
FindIterFrom(pattern, text, cursor) ==
    LET o == FirstOcc(Occs(pattern[1], text), cursor)
    IN  IF o = <<>> THEN <<>>
        ELSE LET e == MatchRest(pattern, 2, text, o[2])
             IN  IF e < 0 THEN <<>>
                 ELSE << <<o[1], e>> >> \o FindIterFrom(pattern, text, e)

FindIter(pattern, text) == FindIterFrom(pattern, text, 0)

\* ------------------------------------------------------------------ DocumentChunk
Ok(v) == [raised |-> FALSE, value |-> v]
Raise(e) == [raised |-> TRUE, value |-> e]

\* The dataclass DocumentChunk declares id, content, metadata and embedding
\* (default None); its generated __init__ takes no other keyword.
DocumentChunk(kw) ==
    IF DOMAIN kw \subseteq {"id", "content", "metadata", "embedding"}
       /\ {"id", "content", "metadata"} \subseteq DOMAIN kw
    THEN Ok([id |-> kw.id, content |-> kw.content, metadata |-> kw.metadata,
             embedding |-> IF "embedding" \in DOMAIN kw THEN kw.embedding ELSE None])
    ELSE Raise("TypeError")

\* hashlib.md5(x.encode()).hexdigest(): distinct strings of the model are taken
\* to have distinct digests.
Md5Hex(x) == [md5 |-> x]

\* ------------------------------------------------------------------ _count_tokens
\* Blanks inside a phrase.
KindBlanks(k) ==
    CASE k \in {"gp", "nd", "td", "wp", "nm", "cs", "yr"} -> 1
      [] k = "pm" -> 2
      [] k = "fb" -> 41
      [] OTHER -> 0

\* len(text.split()): the maximal runs of non-whitespace characters.
RECURSIVE WordCountFrom(_, _)
WordCountFrom(s, inWord) ==
    IF s = <<>> THEN 0
    ELSE LET t == Head(s)
         IN  IF t.k = "sp" THEN WordCountFrom(Tail(s), FALSE)
             ELSE (IF inWord THEN 0 ELSE 1)
                  + (IF IsWhole(t) THEN KindBlanks(t.k) ELSE 0)
                  + WordCountFrom(Tail(s), TRUE)

WordCount(text) == WordCountFrom(text, FALSE)

\* tiktoken refuses a text that holds a special token ("<|endoftext|>").
EncodeRaises(text) == \E i \in 1..Len(text) : text[i].k = "eot" /\ IsWhole(text[i])

\* len(self.encoding.encode(text)): the tokenizer is a library outside the
\* repository; a word is taken to be one token and a run of blanks none.
EncodeLen(text) == WordCount(text)

\* int(len(text.split()) * 1.3)
_count_tokens(text) ==
    IF EncodeRaises(text) THEN (13 * WordCount(text)) \div 10 ELSE EncodeLen(text)

\* ------------------------------------------------------------------ chunker
ContextWindow == 300
MaxSectionContent == 2000
chunk_size == 1000
overlap == 200
GeneralScanLimit == 5000
MinGeneralLen == 100
GeneralSectionLimit == 5
MaxChunks == 20

\* section_content after the matches of one pattern: for every match the text
\* from 300 characters before it to 300 after it, each preceded by a blank.
RECURSIVE AddContexts(_, _, _)
AddContexts(content, matches, text) ==
    IF matches = <<>> THEN content
    ELSE LET m == Head(matches)
             start == Max(0, m[1] - ContextWindow)
             end == Min(StrLen(text), m[2] + ContextWindow)
         IN  AddContexts(Concat(Concat(content, <<Sp(1)>>), Slice(text, start, end)),
                         Tail(matches), text)

RECURSIVE SectionContent(_, _, _, _)
SectionContent(patterns, i, text, content) ==
    IF i > Len(patterns) THEN content
    ELSE SectionContent(patterns, i + 1, text,
                        AddContexts(content, FindIter(patterns[i], text), text))

RECURSIVE MatchCount(_, _, _)
MatchCount(patterns, i, text) ==
    IF i > Len(patterns) THEN 0
    ELSE Len(FindIter(patterns[i], text)) + MatchCount(patterns, i + 1, text)

KeywordScore(keywords, text) ==
    Cardinality({i \in 1..Len(keywords) : KeywordIn(Lower(keywords[i]), text)})

\* One entry of the dict _extract_policy_sections returns; relevance10 is
\* relevance times 10.
PolicySection(config, text) ==
    LET matches_found == MatchCount(config.patterns, 1, text)
        keyword_score == KeywordScore(config.keywords, text)
    IN  [section_type |-> config.name,
         content |-> Strip(SectionContent(config.patterns, 1, text, <<>>)),
         matches |-> matches_found,
         keyword_score |-> keyword_score,
         relevance10 |-> (matches_found * 2 + keyword_score) * config.weight10]

\* The sections in the order of policy_patterns (a dict keeps insertion order).
_extract_policy_sections(text) ==
    [i \in 1..Len(policy_patterns) |-> PolicySection(policy_patterns[i], text)]

\* relevance_score is in hundredths: min(relevance / 10.0, 1.0).
\* The keyword arguments _create_section_chunk gives to DocumentChunk.
SectionChunkArgs(section_type, section_data, source_url, chunk_index) ==
    LET content == Slice(section_data.content, 0, MaxSectionContent)
        content_hash == Md5Hex(content)
    IN  [id |-> <<section_type, chunk_index, content_hash>>,
         content |-> content,
         metadata |-> [source |-> source_url,
                       section_type |-> section_type,
                       matches_found |-> section_data.matches,
                       keyword_score |-> section_data.keyword_score,
                       extraction_method |-> "pattern_matching",
                       chunk_index |-> chunk_index],
         section_type |-> section_type,
         relevance_score |-> Min(section_data.relevance10, 100),
         token_count |-> _count_tokens(content),
         content_hash |-> content_hash]

_create_section_chunk(section_type, section_data, source_url, chunk_index) ==
    DocumentChunk(SectionChunkArgs(section_type, section_data, source_url, chunk_index))

\* The loop over policy_sections.items(): a section with content becomes a
\* chunk whose index is the number of chunks so far.
RECURSIVE SectionChunks(_, _, _, _)
SectionChunks(sections, i, source_url, chunks) ==
    IF i > Len(sections) THEN Ok(chunks)
    ELSE IF sections[i].content = <<>>
    THEN SectionChunks(sections, i + 1, source_url, chunks)
    ELSE LET c == _create_section_chunk(sections[i].section_type, sections[i],
                                        source_url, Len(chunks))
         IN  IF c.raised THEN c
             ELSE SectionChunks(sections, i + 1, source_url, Append(chunks, c.value))

\* The loop over range(0, min(len(text), 5000), chunk_size - overlap).
RECURSIVE GeneralWindows(_, _, _, _, _)
GeneralWindows(text, source_url, start_index, i, chunks) ==
    IF i >= Min(StrLen(text), GeneralScanLimit) THEN Ok(chunks)
    ELSE LET chunk_text == Slice(text, i, i + chunk_size)
             next == i + (chunk_size - overlap)
         IN  IF StrLen(Strip(chunk_text)) > MinGeneralLen
             THEN LET content_hash == Md5Hex(chunk_text)
                      c == DocumentChunk(
                               [id |-> <<"general", start_index + Len(chunks), content_hash>>,
                                content |-> chunk_text,
                                metadata |-> [source |-> source_url,
                                              section_type |-> "general",
                                              extraction_method |-> "general_chunking",
                                              chunk_index |-> start_index + Len(chunks)],
                                section_type |-> "general",
                                relevance_score |-> 30,
                                token_count |-> _count_tokens(chunk_text),
                                content_hash |-> content_hash])
                  IN  IF c.raised THEN c
                      ELSE GeneralWindows(text, source_url, start_index, next,
                                          Append(chunks, c.value))
             ELSE GeneralWindows(text, source_url, start_index, next, chunks)

_create_general_chunks(text, source_url, start_index) ==
    IF start_index < GeneralSectionLimit
    THEN GeneralWindows(text, source_url, start_index, 0, <<>>)
    ELSE Ok(<<>>)

\* list.sort(key = relevance_score, reverse = True): stable, so chunks of equal
\* score keep their order.  Insert x after the entries that are not smaller.
RECURSIVE InsertByScore(_, _)
InsertByScore(sorted, x) ==
    IF sorted = <<>> THEN <<x>>
    ELSE IF Head(sorted).relevance_score >= x.relevance_score
    THEN <<Head(sorted)>> \o InsertByScore(Tail(sorted), x)
    ELSE <<x>> \o sorted

RECURSIVE SortByScore(_, _)
SortByScore(chunks, sorted) ==
    IF chunks = <<>> THEN sorted
    ELSE SortByScore(Tail(chunks), InsertByScore(sorted, Head(chunks)))

\* The key x.relevance_score is read from every chunk: a chunk without the
\* attribute raises AttributeError.
SortChunks(chunks) ==
    IF \E i \in 1..Len(chunks) : "relevance_score" \notin DOMAIN chunks[i]
    THEN Raise("AttributeError")
    ELSE Ok(SortByScore(chunks, <<>>))

\* chunks.sort(...) and chunks[:20]
SortAndLimit(chunks) ==
    Only({ IF sorted.raised THEN sorted
           ELSE Ok(SubSeq(sorted.value, 1, Min(Len(sorted.value), MaxChunks))) :
           sorted \in {SortChunks(chunks)} })

\* The general chunks after the section chunks, then the sort and the limit.
ExtendWithGeneral(chunks, text, source_url) ==
    Only({ IF general_chunks.raised THEN general_chunks
           ELSE SortAndLimit(chunks \o general_chunks.value) :
           general_chunks \in {_create_general_chunks(text, source_url, Len(chunks))} })

_create_intelligent_chunks(text, source_url) ==
    Only({ IF chunks.raised THEN chunks
           ELSE ExtendWithGeneral(chunks.value, text, source_url) :
           chunks \in {SectionChunks(_extract_policy_sections(text), 1, source_url, <<>>)} })

\* ------------------------------------------------------------------ fallback
\* The fixed text of _get_fallback_chunks, which starts and ends with blanks.
fallback_content == <<Sp(9), Phrase("fb"), Sp(9)>>

_get_fallback_chunks ==
    LET content_hash == Md5Hex(fallback_content)
        c == DocumentChunk(
                 [id |-> <<"fallback", content_hash>>,
                  content |-> Strip(fallback_content),
                  metadata |-> [source |-> "fallback_knowledge",
                                section_type |-> "fallback",
                                extraction_method |-> "fallback",
                                chunk_index |-> 0],
                  section_type |-> "fallback",
                  relevance_score |-> 40,
                  token_count |-> _count_tokens(fallback_content),
                  content_hash |-> content_hash])
    IN  IF c.raised THEN c ELSE Ok(<<c.value>>)

_get_fallback_chunks_with_analysis ==
    LET chunks == _get_fallback_chunks
    IN  IF chunks.raised THEN chunks
        ELSE Ok([chunks |-> chunks.value,
                 analysis |-> [document_stats |-> [total_chunks |-> Len(chunks.value),
                                                   processing_mode |-> "fallback"],
                               extraction_quality |-> [structured_info_extracted |-> FALSE,
                                                       semantic_processing |-> FALSE]]])

\* ------------------------------------------------------------------ TfidfVectorizer
max_features == 1000

W(name) == <<name, 0>>

\* The words the analyzer keeps of one token: lower-cased words of two or
\* more characters (token_pattern \b\w\w+\b) that are no English stop word.
TokenWords(t) ==
    CASE t.k = "x" -> IF t.n >= 2 THEN << <<"x", t.n>> >> ELSE <<>>
      [] t.k = "frag" -> IF t.n >= 2 THEN << <<"frag", t.n>> >> ELSE <<>>
      [] t.k = "sp" -> <<>>
      [] t.k = "gp" -> <<W("grace"), W("period")>>
      [] t.k = "nd" -> <<W("30"), W("days")>>
      [] t.k = "td" -> <<W("thirty"), W("days")>>
      [] t.k = "of" -> <<>>
      [] t.k = "wp" -> <<W("waiting"), W("period")>>
      [] t.k = "nm" -> <<W("24"), W("months")>>
      [] t.k = "cs" -> <<W("cataract"), W("surgery")>>
      [] t.k = "wt" -> <<W("waiting")>>
      [] t.k = "yr" -> <<W("years")>>
      [] t.k \in {"eot", "ew"} -> <<W("endoftext")>>
      [] t.k = "pm" -> <<W("page")>>
      [] t.k = "fb" -> <<W("national"), W("parivar"), W("mediclaim")>>
      [] OTHER -> <<>>

RECURSIVE Analyze(_)
Analyze(text) == IF text = <<>> THEN <<>> ELSE TokenWords(Head(text)) \o Analyze(Tail(text))

\* ngram_range = (1, 2): the unigrams and the bigrams of the kept words.
Ngrams(text) ==
    LET w == Analyze(text)
    IN  IF w = <<>> THEN <<>>
        ELSE [i \in 1..Len(w) |-> <<w[i]>>] \o [i \in 1..(Len(w) - 1) |-> <<w[i], w[i + 1]>>]

TermSet(text) == {Ngrams(text)[i] : i \in 1..Len(Ngrams(text))}

TermCount(term, text) ==
    Cardinality({i \in 1..Len(Ngrams(text)) : Ngrams(text)[i] = term})

\* The vocabulary fit_transform learns from a batch: its terms, cut to
\* max_features when there are more.
FitVocabulary(texts) ==
    LET terms == UNION {TermSet(texts[i]) : i \in 1..Len(texts)}
    IN  IF Cardinality(terms) <= max_features THEN terms
        ELSE CHOOSE S \in SUBSET terms : Cardinality(S) = max_features

\* One row of transform(texts): the count of every vocabulary term (the idf
\* weight and the norm scale a row; they do not change the terms it holds).
Row(text, vocabulary) == [t \in vocabulary |-> TermCount(t, text)]

Transform(texts, vocabulary) == [i \in 1..Len(texts) |-> Row(texts[i], vocabulary)]

\* ------------------------------------------------------------------ LightweightVectorStore
\* The store is a record vs of the fields of the object.  document_vectors is
\* NoMatrix for None and Matrix(rows) otherwise; vocabulary is the vectorizer's
\* vocabulary_, which is empty until a fit has succeeded.
NoMatrix == [none |-> TRUE, rows |-> <<>>]
Matrix(rows) == [none |-> FALSE, rows |-> rows]

NewVectorStore ==
    [chunks |-> <<>>, chunk_metadata |-> <<>>, document_vectors |-> NoMatrix,
     vectorizer_fitted |-> FALSE, vocabulary |-> {}]

ContentOf(batch) == [i \in 1..Len(batch) |-> batch[i].content]

ChunkMeta(chunk) ==
    [id |-> chunk.id, metadata |-> chunk.metadata,
     content_preview |-> Slice(chunk.content, 0, 200)]

\* A store that fits its vectorizer again on every batch.
add_documents_refit(vs, batch) ==
    IF batch = <<>> \/ FitVocabulary(ContentOf(batch)) = {} THEN [vs |-> vs, ret |-> FALSE]
    ELSE [vs |-> [vs EXCEPT
                     !.chunks = vs.chunks \o batch,
                     !.chunk_metadata = vs.chunk_metadata \o
                         [i \in 1..Len(batch) |-> ChunkMeta(batch[i])],
                     !.vocabulary = FitVocabulary(ContentOf(batch)),
                     !.document_vectors =
                         Matrix(vs.document_vectors.rows \o
                                Transform(ContentOf(batch), FitVocabulary(ContentOf(batch)))),
                     !.vectorizer_fitted = TRUE],
          ret |-> TRUE]

\* A store that keeps the vectors of its latest batch only.
add_documents_unstacked(vs, batch) ==
    IF batch = <<>> THEN [vs |-> vs, ret |-> FALSE]
    ELSE IF ~vs.vectorizer_fitted /\ FitVocabulary(ContentOf(batch)) = {}
    THEN [vs |-> vs, ret |-> FALSE]
    ELSE LET vocabulary == IF vs.vectorizer_fitted THEN vs.vocabulary
                           ELSE FitVocabulary(ContentOf(batch))
         IN  [vs |-> [vs EXCEPT
                         !.chunks = vs.chunks \o batch,
                         !.chunk_metadata = vs.chunk_metadata \o
                             [i \in 1..Len(batch) |-> ChunkMeta(batch[i])],
                         !.vocabulary = vocabulary,
                         !.document_vectors = Matrix(Transform(ContentOf(batch), vocabulary)),
                         !.vectorizer_fitted = TRUE],
              ret |-> TRUE]

\* add_documents: the new store and the value returned.  fit_transform raises
\* ValueError (empty vocabulary) before it changes the vectorizer, and both
\* fit_transform and transform raise AttributeError on a text that is not a
\* str before anything is assigned; the except clause returns False.
\* A store that appends the chunks of a batch before it vectorizes them, so
\* that a batch the vectorizer refuses stays in the chunk list.
add_documents_storing_first(vs, batch) ==
    IF batch = <<>> THEN [vs |-> vs, ret |-> FALSE]
    ELSE IF \/ \E i \in 1..Len(batch) : ~IsStr(batch[i].content)
            \/ ~vs.vectorizer_fitted /\ FitVocabulary(ContentOf(batch)) = {}
    THEN [vs |-> [vs EXCEPT !.chunks = vs.chunks \o batch], ret |-> FALSE]
    ELSE LET stored == [vs EXCEPT !.chunks = vs.chunks \o batch,
                                  !.chunk_metadata = vs.chunk_metadata \o
                                      [i \in 1..Len(batch) |-> ChunkMeta(batch[i])]]
         IN  IF ~vs.vectorizer_fitted
             THEN [vs |-> [stored EXCEPT
                              !.vocabulary = FitVocabulary(ContentOf(batch)),
                              !.document_vectors =
                                  Matrix(Transform(ContentOf(batch),
                                                   FitVocabulary(ContentOf(batch)))),
                              !.vectorizer_fitted = TRUE],
                   ret |-> TRUE]
             ELSE [vs |-> [stored EXCEPT
                              !.document_vectors =
                                  Matrix(vs.document_vectors.rows \o
                                         Transform(ContentOf(batch), vs.vocabulary))],
                   ret |-> TRUE]

add_documents(vs, batch) ==
    IF batch = <<>> THEN [vs |-> vs, ret |-> FALSE]
    ELSE IF \E i \in 1..Len(batch) : ~IsStr(batch[i].content)
    THEN [vs |-> vs, ret |-> FALSE]
    ELSE LET texts == ContentOf(batch)
             stored == [vs EXCEPT !.chunks = vs.chunks \o batch,
                                  !.chunk_metadata = vs.chunk_metadata \o
                                      [i \in 1..Len(batch) |-> ChunkMeta(batch[i])]]
         IN  IF ~vs.vectorizer_fitted
             THEN IF FitVocabulary(texts) = {}
                  THEN [vs |-> vs, ret |-> FALSE]
                  ELSE [vs |-> [stored EXCEPT
                                   !.vocabulary = FitVocabulary(texts),
                                   !.document_vectors =
                                       Matrix(Transform(texts, FitVocabulary(texts))),
                                   !.vectorizer_fitted = TRUE],
                        ret |-> TRUE]
             ELSE [vs |-> [stored EXCEPT
                              !.document_vectors =
                                  IF ~vs.document_vectors.none
                                  THEN Matrix(vs.document_vectors.rows \o
                                              Transform(texts, vs.vocabulary))
                                  ELSE Matrix(Transform(texts, vs.vocabulary))],
                   ret |-> TRUE]

get_stats(vs) ==
    [total_chunks |-> Len(vs.chunks), vector_dimensions |-> max_features,
     vectorizer_fitted |-> vs.vectorizer_fitted, implementation |-> "lightweight_sklearn"]

\* Dot product of two rows over the same vocabulary.
RECURSIVE DotOver(_, _, _)
DotOver(terms, a, b) ==
    IF terms = {} THEN 0
    ELSE LET t == CHOOSE x \in terms : TRUE
         IN  a[t] * b[t] + DotOver(terms \ {t}, a, b)

Dot(a, b) == DotOver(DOMAIN a, a, b)

\* cosine_similarity of two rows in hundredths, rounded down; 0 when either
\* row is all zero.
Cosine100(a, b) ==
    LET num == Dot(a, b) * Dot(a, b)
        den == Dot(a, a) * Dot(b, b)
    IN  IF den = 0 THEN 0
        ELSE CHOOSE r \in 0..100 :
                 /\ r * r * den <= 10000 * num
                 /\ (r = 100 \/ (r + 1) * (r + 1) * den > 10000 * num)

\* np.argsort(similarities): the indices in ascending order of similarity,
\* equal similarities in ascending index order.
RECURSIVE InsertAsc(_, _, _)
InsertAsc(order, i, sims) ==
    IF order = <<>> THEN <<i>>
    ELSE IF sims[Head(order)] <= sims[i]
    THEN <<Head(order)>> \o InsertAsc(Tail(order), i, sims)
    ELSE <<i>> \o order

RECURSIVE ArgSortFrom(_, _, _)
ArgSortFrom(sims, i, order) ==
    IF i > Len(sims) THEN order
    ELSE ArgSortFrom(sims, i + 1, InsertAsc(order, i, sims))

\* An argsort that leaves the indices in their order.
IndexOrder(sims) == [i \in 1..Len(sims) |-> i]

ArgSort(sims) == ArgSortFrom(sims, 1, <<>>)

Reverse(s) == [i \in 1..Len(s) |-> s[Len(s) + 1 - i]]

\* s[:k] of Python: a negative k counts from the end.
Take(s, k) ==
    IF k >= 0 THEN SubSeq(s, 1, Min(k, Len(s)))
    ELSE SubSeq(s, 1, Max(0, Len(s) + k))

\* The statements of search after its guard.  transform raises while the
\* vectorizer is not fitted and on a query that is not a str,
\* cosine_similarity raises on a None matrix.
SearchBody(vs, query, top_k) ==
    IF ~vs.vectorizer_fitted THEN Raise("NotFittedError")
    ELSE IF ~IsStr(query) THEN Raise("AttributeError")
    ELSE IF vs.document_vectors.none THEN Raise("ValueError")
    ELSE LET query_vector == Row(query, vs.vocabulary)
             rows == vs.document_vectors.rows
             similarities == [i \in 1..Len(rows) |-> Cosine100(query_vector, rows[i])]
             top_indices == Take(Reverse(ArgSort(similarities)), top_k)
             kept == SelectSeq(top_indices, LAMBDA idx : idx <= Len(vs.chunks))
         IN  Ok([i \in 1..Len(kept) |-> [chunk |-> vs.chunks[kept[i]],
                                         score |-> similarities[kept[i]]]])

\* A search with neither the guard nor the except clause.
search_unguarded(vs, query, top_k) == SearchBody(vs, query, top_k)

\* A search that keeps the guard and has no except clause.
search_uncaught(vs, query, top_k) ==
    IF ~vs.vectorizer_fitted \/ Len(vs.chunks) = 0 THEN Ok(<<>>)
    ELSE SearchBody(vs, query, top_k)

\* search: [] when the store is empty, and [] again when the body raises.
search(vs, query, top_k) ==
    IF ~vs.vectorizer_fitted \/ Len(vs.chunks) = 0 THEN Ok(<<>>)
    ELSE Only({ IF r.raised THEN Ok(<<>>) ELSE r : r \in {SearchBody(vs, query, top_k)} })

\* ------------------------------------------------------------------ SemanticMatcher
\* The words of text.lower().split() that the tokens of the model can hold.
TokenSplitWords(t) ==
    CASE t.k = "x" -> {<<"x", t.n>>}
      [] t.k = "frag" -> {<<"frag", t.n>>}
      [] t.k = "sp" -> {}
      [] t.k = "of" -> {W("of")}
      [] t.k = "yr" -> {W("two"), W("years")}
      [] OTHER -> {TokenWords(t)[i] : i \in 1..Len(TokenWords(t))}

SplitWordSet(text) == UNION {TokenSplitWords(text[i]) : i \in 1..Len(text)}

\* The explanation as (bucket, common words); the text shows at most three of
\* the common words.
_explain_relevance(query, chunk, score) ==
    [bucket |-> IF score > 80 THEN "High similarity"
                ELSE IF score > 60 THEN "Good match"
                ELSE IF score > 40 THEN "Moderate relevance"
                ELSE "Low relevance",
     score |-> score,
     common_words |-> SplitWordSet(query) \cap SplitWordSet(chunk.content)]

semantic_search_with_metadata(vs, query, top_k) ==
    Only({ IF results.raised THEN results
           ELSE Ok([i \in 1..Len(results.value) |->
                       [chunk_id |-> results.value[i].chunk.id,
                        content |-> results.value[i].chunk.content,
                        similarity_score |-> results.value[i].score,
                        metadata |-> results.value[i].chunk.metadata,
                        relevance_explanation |->
                            _explain_relevance(query, results.value[i].chunk,
                                               results.value[i].score)]]) :
           results \in {search(vs, query, top_k)} })

clause_patterns ==
    << [name |-> "grace_period",
        patterns |-> <<"grace period", "premium payment", "due date", "thirty days">>],
       [name |-> "waiting_period",
        patterns |-> <<"waiting period", "pre-existing disease", "PED", "months">>],
       [name |-> "maternity",
        patterns |-> <<"maternity expenses", "childbirth", "pregnancy", "months">>],
       [name |-> "cataract",
        patterns |-> <<"cataract surgery", "eye surgery", "years">>],
       [name |-> "organ_donor",
        patterns |-> <<"organ donor", "transplant", "medical expenses">>],
       [name |-> "ncd",
        patterns |-> <<"No Claim Discount", "NCD", "percent">>],
       [name |-> "health_checkup",
        patterns |-> <<"health check-up", "preventive", "reimbursement">>],
       [name |-> "hospital_definition",
        patterns |-> <<"hospital defined", "beds", "nursing staff">>],
       [name |-> "ayush",
        patterns |-> <<"AYUSH treatment", "Ayurveda", "Naturopathy">>],
       [name |-> "room_rent",
        patterns |-> <<"room rent", "ICU charges", "percent">>] >>

\* The clause patterns that are substrings of a phrase (lower case).
KindClausePatterns(k) ==
    CASE k = "gp" -> {"grace period"}
      [] k = "td" -> {"thirty days"}
      [] k = "wp" -> {"waiting period"}
      [] k = "nm" -> {"months"}
      [] k = "cs" -> {"cataract surgery"}
      [] k = "yr" -> {"years"}
      [] OTHER -> {}

\* pattern.lower() in text.lower(); the clause patterns the tokens of the
\* model can hold are all lower case.
ClausePatternIn(pattern, text) ==
    \E i \in 1..Len(text) : IsWhole(text[i]) /\ pattern \in KindClausePatterns(text[i].k)

\* score of one clause type: its patterns found in both query and content.
ClauseScore(patterns, query, content) ==
    Cardinality({i \in 1..Len(patterns) :
                    ClausePatternIn(patterns[i], query) /\ ClausePatternIn(patterns[i], content)})

\* A pattern score that looks at the first clause type only.
FirstTypeOnly12(i, query, content, max_score) ==
    (12 * ClauseScore(clause_patterns[1].patterns, query, content))
        \div Len(clause_patterns[1].patterns)

RECURSIVE MaxPattern12(_, _, _, _)
MaxPattern12(i, query, content, max_score) ==
    IF i > Len(clause_patterns) THEN max_score
    ELSE LET patterns == clause_patterns[i].patterns
             normalized == (12 * ClauseScore(patterns, query, content)) \div Len(patterns)
         IN  MaxPattern12(i + 1, query, content, Max(max_score, normalized))

\* The pattern score in twelfths (every clause type has 3 or 4 patterns).
_calculate_pattern_score(query, content) == Min(MaxPattern12(1, query, content, 0), 12)

RECURSIVE BestClause(_, _, _, _, _)
BestClause(i, query, content, best_match, best_score) ==
    IF i > Len(clause_patterns) THEN best_match
    ELSE LET score == ClauseScore(clause_patterns[i].patterns, query, content)
         IN  IF score > best_score
             THEN BestClause(i + 1, query, content, clause_patterns[i].name, score)
             ELSE BestClause(i + 1, query, content, best_match, best_score)

_identify_clause_type(query, content) == BestClause(1, query, content, "general", 0)

\* list.sort(key = combined_score, reverse = True), stable.
RECURSIVE InsertByCombined(_, _)
InsertByCombined(sorted, x) ==
    IF sorted = <<>> THEN <<x>>
    ELSE IF Head(sorted).combined_score >= x.combined_score
    THEN <<Head(sorted)>> \o InsertByCombined(Tail(sorted), x)
    ELSE <<x>> \o sorted

\* A matcher that leaves the candidates in the order of the index.
KeepIndexOrder(results, sorted) == results

RECURSIVE SortByCombined(_, _)
SortByCombined(results, sorted) ==
    IF results = <<>> THEN sorted
    ELSE SortByCombined(Tail(results), InsertByCombined(sorted, Head(results)))

\* combined_score is in thousandths: 0.7 * similarity + 0.3 * pattern score.
Enhance(query, result) ==
    Only({ [chunk_id |-> result.chunk_id,
            content |-> result.content,
            similarity_score |-> result.similarity_score,
            metadata |-> result.metadata,
            relevance_explanation |-> result.relevance_explanation,
            pattern_score |-> pattern_score,
            combined_score |-> 7 * result.similarity_score + 25 * pattern_score,
            clause_type |-> _identify_clause_type(query, result.content)] :
           pattern_score \in {_calculate_pattern_score(query, result.content)} })

find_relevant_clauses(vs, query, top_k) ==
    Only({ IF search_results.raised THEN search_results
           ELSE Ok(Take(SortByCombined([i \in 1..Len(search_results.value) |->
                                           Enhance(query, search_results.value[i])],
                                       <<>>),
                        top_k)) :
           search_results \in {semantic_search_with_metadata(vs, query, top_k * 2)} })

\* search_document_semantically: [] when the matcher raises.
search_document_semantically(vs, query, top_k) ==
    Only({ IF results.raised THEN Ok(<<>>) ELSE results :
           results \in {find_relevant_clauses(vs, query, top_k)} })

\* ------------------------------------------------------------------ download, extraction
DownloadAttempts == 3

\* A document on the network is [magic, valid, parts]: magic is what its first
\* bytes say ("pdf" for %PDF, "zip" for PK, "html" for <html, "none"), valid
\* whether the parser of that format can read it, and parts its pieces
\* [tag, text]: the pages of a PDF, the paragraphs of a DOCX ("heading" or
\* "para"), the elements of an HTML page, the text of anything else.
Doc(magic, valid, parts) == [magic |-> magic, valid |-> valid, parts |-> parts]
Part(tag, text) == [tag |-> tag, text |-> text]

\* The body has no bytes (not content).
NoContent(doc) == doc.magic = "none" /\ \A i \in 1..Len(doc.parts) : doc.parts[i].text = <<>>

\* url.lower().endswith(suffix)
EndsWith(url, suffixes) ==
    \/ ".pdf" \in suffixes /\ url \in {"a.pdf"}
    \/ ".docx" \in suffixes /\ url \in {"c.docx"}

\* _download_document: ok[i] says whether attempt i succeeds.  The value is
\* the body and the number of attempts made; the third failure is raised.
\* (The return None after the loop is written as a body without bytes.)
\* A download that gives up at the first failed attempt.
DownloadNoRetry(doc, ok, attempt) ==
    IF ok[attempt + 1]
    THEN [raised |-> FALSE, value |-> doc, attempts |-> attempt + 1]
    ELSE [raised |-> TRUE, value |-> "RequestException", attempts |-> attempt + 1]

RECURSIVE DownloadFrom(_, _, _)
DownloadFrom(doc, ok, attempt) ==
    IF attempt >= DownloadAttempts
    THEN [raised |-> FALSE, value |-> Doc("none", TRUE, <<>>), attempts |-> attempt]
    ELSE IF ok[attempt + 1]
    THEN [raised |-> FALSE, value |-> doc, attempts |-> attempt + 1]
    ELSE IF attempt = 2
    THEN [raised |-> TRUE, value |-> "RequestException", attempts |-> attempt + 1]
    ELSE DownloadFrom(doc, ok, attempt + 1)

_download_document(doc, ok) == DownloadFrom(doc, ok, 0)

\* re.sub(r'\s+', ' ', text)
RECURSIVE CollapseBlanks(_)
CollapseBlanks(s) ==
    IF s = <<>> THEN <<>>
    ELSE (IF Head(s).k = "sp" THEN <<Sp(1)>> ELSE <<Head(s)>>) \o CollapseBlanks(Tail(s))

\* The characters outside the allow-list become blanks: of the phrases of the
\* model only "<|endoftext|>" holds such characters, two on each side.
RECURSIVE BlankOthers(_)
BlankOthers(s) ==
    IF s = <<>> THEN <<>>
    ELSE (IF Head(s).k = "eot" /\ IsWhole(Head(s))
          THEN <<Sp(2), Phrase("ew"), Sp(2)>>
          ELSE <<Head(s)>>) \o BlankOthers(Tail(s))

\* _clean_extracted_text: blanks collapsed first, other characters blanked
\* after that, then strip().  The texts of the model hold no one-letter words
\* and no currency signs, which the two other substitutions rewrite.
_clean_extracted_text(text) == Strip(Norm(BlankOthers(CollapseBlanks(Norm(text)))))

\* A PDF reading that writes the page marker for every page, with text or not.
RECURSIVE PdfTextEveryPage(_, _)
PdfTextEveryPage(parts, i) ==
    IF i > Len(parts) THEN <<>>
    ELSE <<Sp(1), Phrase("pm"), Sp(1)>> \o parts[i].text \o <<Sp(1)>>
         \o PdfTextEveryPage(parts, i + 1)

\* text of a PDF: for every page with text a page marker and the page.
RECURSIVE PdfText(_, _)
PdfText(parts, i) ==
    IF i > Len(parts) THEN <<>>
    ELSE (IF parts[i].text # <<>>
          THEN <<Sp(1), Phrase("pm"), Sp(1)>> \o parts[i].text \o <<Sp(1)>>
          ELSE <<>>) \o PdfText(parts, i + 1)

_extract_pdf_with_structure(doc) ==
    IF doc.magic = "pdf" /\ doc.valid
    THEN _clean_extracted_text(PdfText(doc.parts, 1))
    ELSE <<>>

\* text of a DOCX: the paragraphs that are not blank; a heading is upper-cased
\* (case is not kept in the model) and put between === markers.
RECURSIVE DocxText(_, _)
DocxText(parts, i) ==
    IF i > Len(parts) THEN <<>>
    ELSE (IF Strip(parts[i].text) = <<>> THEN <<>>
          ELSE IF parts[i].tag = "heading"
          THEN <<Sp(1), Phrase("eq"), Sp(1)>> \o parts[i].text
               \o <<Sp(1), Phrase("eq"), Sp(1)>>
          ELSE parts[i].text \o <<Sp(1)>>) \o DocxText(parts, i + 1)

_extract_docx_with_structure(doc) ==
    IF doc.magic = "zip" /\ doc.valid
    THEN _clean_extracted_text(DocxText(doc.parts, 1))
    ELSE <<>>

\* soup.get_text() without script, style, nav, footer and header elements.
RECURSIVE HtmlText(_, _)
HtmlText(parts, i) ==
    IF i > Len(parts) THEN <<>>
    ELSE (IF parts[i].tag \in {"script", "style", "nav", "footer", "header"}
          THEN <<>> ELSE parts[i].text) \o HtmlText(parts, i + 1)

_extract_html_clean(doc) == _clean_extracted_text(HtmlText(doc.parts, 1))

\* content.decode('utf-8', errors = 'ignore')
RECURSIVE RawText(_, _)
RawText(parts, i) ==
    IF i > Len(parts) THEN <<>> ELSE parts[i].text \o RawText(parts, i + 1)

_extract_text_by_type(doc, url) ==
    IF EndsWith(url, {".pdf"}) \/ doc.magic = "pdf"
    THEN _extract_pdf_with_structure(doc)
    ELSE IF EndsWith(url, {".docx", ".doc"}) \/ doc.magic = "zip"
    THEN _extract_docx_with_structure(doc)
    ELSE IF doc.magic = "html"
    THEN _extract_html_clean(doc)
    ELSE Norm(RawText(doc.parts, 1))

\* ------------------------------------------------------------------ the inputs of the model
\* "grace period of thirty days"
TextThirty == <<Phrase("gp"), Sp(1), Phrase("of"), Sp(1), Phrase("td")>>
\* "grace period of 30 days"
TextDigits == <<Phrase("gp"), Sp(1), Phrase("of"), Sp(1), Phrase("nd")>>
\* 150 letters
TextLetters == <<X(150)>>
\* blanks only
TextBlank == <<Sp(3)>>
\* "<|endoftext|> thirty days"
TextSpecial == <<Phrase("eot"), Sp(1), Phrase("td")>>
\* a long text with both periods, far apart
TextLong ==
    <<X(2600), Sp(1), Phrase("gp"), Sp(1), Phrase("of"), Sp(1), Phrase("nd"), Sp(2),
      X(2600), Sp(1), Phrase("nd"), Sp(1), Phrase("gp"), Sp(1), Phrase("wp"), Sp(1),
      Phrase("nm"), Sp(1), X(900)>>

\* "grace period of thirty days", later "30 days"
TextBoth ==
    <<X(120), Sp(1), Phrase("gp"), Sp(1), Phrase("of"), Sp(1), Phrase("td"), Sp(1),
      X(40), Sp(1), Phrase("nd")>>

\* The last three are "waiting period 24 months" before 400 letters, the
\* same before 400 letters and "grace period of 30 days", and 30 letters, 80
\* blanks and 30 letters.
Texts ==
    { <<>>, TextThirty, TextDigits, TextLetters, TextBlank, TextSpecial, TextBoth, TextLong,
      <<Phrase("wp"), Sp(1), Phrase("nm"), Sp(1), X(400)>>,
      <<Phrase("wp"), Sp(1), Phrase("nm"), Sp(1), X(400), Sp(1),
        Phrase("gp"), Sp(1), Phrase("of"), Sp(1), Phrase("nd")>>,
      <<X(30), Sp(80), X(30)>> }

URLs == {"a.pdf", "b"}

Docs ==
    { Doc("none", TRUE, <<>>),
      Doc("none", TRUE, <<Part("raw", TextThirty)>>),
      Doc("none", TRUE, <<Part("raw", TextDigits)>>),
      Doc("none", TRUE, <<Part("raw", TextLetters)>>),
      Doc("none", TRUE, <<Part("raw", TextBlank)>>),
      Doc("none", TRUE, <<Part("raw", TextSpecial)>>),
      Doc("none", TRUE, <<Part("raw", TextLong)>>),
      Doc("pdf", TRUE, <<Part("page", TextThirty), Part("page", <<>>)>>),
      Doc("pdf", TRUE, <<Part("page", <<>>)>>),
      Doc("pdf", TRUE, <<Part("page", <<X(5)>>)>>),
      Doc("pdf", FALSE, <<>>),
      Doc("zip", TRUE, <<Part("heading", TextThirty), Part("para", TextBlank)>>),
      Doc("html", TRUE, <<Part("script", TextDigits), Part("body", TextBlank)>>),
      Doc("html", TRUE, <<Part("body", TextSpecial)>>) }

\* Chunks a caller of the vector store builds itself.
Chunk(id, content) ==
    DocumentChunk([id |-> id, content |-> content, metadata |-> [source |-> "caller"]]).value

Batches ==
    { <<>>,
      <<Chunk("k1", <<Phrase("gp")>>)>>,
      <<Chunk("k2", <<Phrase("of")>>)>>,
      <<Chunk("k3", <<Phrase("wp"), Sp(1), Phrase("nm")>>), Chunk("k1", <<Phrase("gp")>>)>>,
      <<Chunk("k4", <<X(5)>>), Chunk("k2", <<Phrase("of")>>)>>,
      <<Chunk("k5", NotAStr)>>,
      <<Chunk("k6", <<Phrase("cs"), Sp(1), Phrase("wt"), Sp(1), Phrase("yr")>>),
        Chunk("k7", <<Phrase("nm"), Sp(1), Phrase("yr")>>)>> }

Queries ==
    { <<>>, <<Phrase("gp")>>, <<Phrase("nm"), Sp(1), X(5)>>, NotAStr,
      <<Phrase("cs")>>, <<Phrase("nm"), Sp(1), Phrase("yr")>> }

TopKs == {0, 2}

\* The documents a URL can serve: one that ends in .pdf is read as a PDF
\* whatever it serves.
DocsOf(u) ==
    IF u = "a.pdf"
    THEN { Doc("pdf", TRUE, <<Part("page", TextThirty), Part("page", <<>>)>>),
           Doc("pdf", TRUE, <<Part("page", <<X(5)>>)>>),
           Doc("pdf", FALSE, <<>>),
           Doc("none", TRUE, <<Part("raw", TextDigits)>>) }
    ELSE Docs

\* ------------------------------------------------------------------ process_document
\* getattr(obj, name, default)
GetAttr(obj, name, default) == IF name \in DOMAIN obj THEN obj[name] ELSE default

RECURSIVE SumSeq(_)
SumSeq(s) == IF s = <<>> THEN 0 ELSE Head(s) + SumSeq(Tail(s))

\* The number of patterns of policy_patterns that re.search finds in the text.
PatternMatches(text) ==
    Cardinality({ij \in {<<i, j>> : i \in 1..Len(policy_patterns), j \in 1..4} :
                    /\ ij[2] <= Len(policy_patterns[ij[1]].patterns)
                    /\ FindIter(policy_patterns[ij[1]].patterns[ij[2]], text) # <<>>})

\* _analyze_document_structure.  A quotient a / b is the pair <<a, b>>.  The
\* entry structured_information, a dictionary of further regex extractions
\* that nothing else reads, is left out.
_analyze_document_structure(text, chunks) ==
    LET types == [i \in 1..Len(chunks) |-> GetAttr(chunks[i], "section_type", "general")]
        relevance_scores == [i \in 1..Len(chunks) |-> GetAttr(chunks[i], "relevance_score", 0)]
    IN  [document_stats |->
             [total_length |-> StrLen(text),
              total_chunks |-> Len(chunks),
              total_tokens |-> _count_tokens(text),
              avg_chunk_size |-> IF chunks # <<>> THEN <<StrLen(text), Len(chunks)>>
                                 ELSE <<0, 1>>],
         content_analysis |->
             [section_distribution |->
                  [t \in {types[i] : i \in 1..Len(types)} |->
                      Cardinality({i \in 1..Len(types) : types[i] = t})],
              relevance_scores |-> relevance_scores,
              avg_relevance |-> IF relevance_scores # <<>>
                                THEN <<SumSeq(relevance_scores), Len(relevance_scores)>>
                                ELSE <<0, 1>>],
         extraction_quality |->
             [structured_info_extracted |-> TRUE,
              semantic_processing |-> Len(chunks) > 0,
              pattern_matches |-> PatternMatches(text)]]

\* What process_document computes from a downloaded body before it touches
\* the store: the text, the chunks (or the exception of the chunker) and, when
\* there are chunks to analyse, the analysis.
Prepare(doc, document_url) ==
    Only({ Only({ [text |-> text,
                   chunks |-> chunks,
                   analysis |-> IF text = <<>> \/ chunks.raised THEN <<>>
                                ELSE <<_analyze_document_structure(text, chunks.value)>>] :
                  chunks \in {IF text = <<>> THEN Ok(<<>>)
                              ELSE _create_intelligent_chunks(text, document_url)} }) :
           text \in {_extract_text_by_type(doc, document_url)} })

\* The chunker on every text of the model, computed once.
Chunked == [t \in Texts |-> _create_intelligent_chunks(t, "b")]

\* The policy sections of every text of the model, computed once.
Sections == [t \in Texts |-> _extract_policy_sections(t)]

\* Prepare for every URL and document of the model, computed once.
Prepared == [u \in URLs |-> [d \in Docs |-> Prepare(d, u)]]

\* cache_key
CacheKey(document_url) == Md5Hex(document_url)

\* A processor that never finds a URL in its cache.
CacheHitNever(cache, cache_key) == FALSE

\* cache_key in self.document_cache
CacheHit(cache, cache_key) == cache_key \in DOMAIN cache

\* A cache that holds the latest entry only.
CacheStoreOnly(cache, cache_key, entry) == [k \in {cache_key} |-> entry]

\* self.document_cache[cache_key] = entry
CacheStore(cache, cache_key, entry) ==
    [k \in DOMAIN cache \cup {cache_key} |-> IF k = cache_key THEN entry ELSE cache[k]]

\* What the except clause of process_document and its two early returns do:
\* the fallback pair is returned, and an exception raised while it is built
\* leaves the method.
Fallback(cache, vs, fetches, stage) ==
    [ret |-> _get_fallback_chunks_with_analysis, cache |-> cache, vs |-> vs,
     fetches |-> fetches, path |-> "fallback", stage |-> stage]

\* The rest of process_document once the body is there: prepared holds the
\* text, the chunks and the analysis of _analyze_document_structure.
Finish(cache, vs, document_url, fetches, prepared, store, time) ==
    LET analysis ==
            [document_stats |-> prepared.analysis[1].document_stats,
             content_analysis |-> prepared.analysis[1].content_analysis,
             extraction_quality |-> prepared.analysis[1].extraction_quality,
             processing_time |-> 0,
             vector_store_stats |-> get_stats(store)]
        entry == [chunks |-> prepared.chunks.value,
                  analysis |-> analysis,
                  timestamp |-> time]
    IN  [ret |-> Ok([chunks |-> prepared.chunks.value, analysis |-> analysis]),
         cache |-> CacheStore(cache, CacheKey(document_url), entry),
         vs |-> store,
         fetches |-> fetches, path |-> "success",
         stage |-> "chunked"]

\* process_document after the download: the two tests for nothing extracted
\* and nothing chunked, then the store, the analysis and the cache.
Processed(cache, vs, document_url, fetches, prepared, time) ==
    IF prepared.text = <<>>
    THEN Fallback(cache, vs, fetches, "no_text")
    ELSE IF prepared.chunks.raised
    THEN Fallback(cache, vs, fetches, "chunker_raised")
    ELSE Finish(cache, vs, document_url, fetches, prepared,
                IF prepared.chunks.value # <<>>
                THEN add_documents(vs, prepared.chunks.value).vs
                ELSE vs,
                time)

\* process_document(document_url) on a processor with document cache cache
\* and vector store vs, when the URL serves doc, attempt i of the download
\* succeeds iff ok[i], and the clock reads time (it does not advance inside
\* the call, so processing_time is 0).  The value is
\* [ret, cache, vs, fetches, path, stage]: what the call returns or raises,
\* the cache and store it leaves, the downloads it attempted, the return
\* statement it left through ("cache", "fallback", "success") and how far the
\* pipeline got ("cache", "download_failed", "no_content", "no_text",
\* "chunker_raised", "chunked").
process_document(cache, vs, document_url, doc, ok, time) ==
    IF CacheHit(cache, CacheKey(document_url))
    THEN [ret |-> Ok([chunks |-> cache[CacheKey(document_url)].chunks,
                      analysis |-> cache[CacheKey(document_url)].analysis]),
          cache |-> cache, vs |-> vs, fetches |-> 0, path |-> "cache",
          stage |-> "cache"]
    ELSE Only({ IF content.raised
                THEN Fallback(cache, vs, content.attempts, "download_failed")
                ELSE IF NoContent(content.value)
                THEN Fallback(cache, vs, content.attempts, "no_content")
                ELSE Processed(cache, vs, document_url, content.attempts,
                               Prepared[document_url][content.value], time) :
                content \in {_download_document(doc, ok)} })

\* ------------------------------------------------------------------ main.py: POST /hackrx/run
AUTH_TOKEN == "667efb9a18a1e0cb1dbc77a25fddc98c12849e980fc25cc9dea06eca61b1f4c8"

\* An Authorization header is the sequence of its pieces, "Bearer " being one
\* piece; <<>> is the missing header (None) and the empty one.
Authorizations ==
    { <<>>,
      <<"Basic ", AUTH_TOKEN>>,
      <<"Bearer ", "invalid_token">>,
      <<"Bearer ", AUTH_TOKEN>>,
      <<"Bearer ", "Bearer ", AUTH_TOKEN>> }

\* verify_token: HTTPException(401) unless the header starts with "Bearer "
\* and is the expected token once every "Bearer " is taken out of it.
verify_token(authorization) ==
    IF authorization = <<>> \/ Head(authorization) # "Bearer "
    THEN Raise([status_code |-> 401, detail |-> "Invalid authorization header"])
    ELSE IF SelectSeq(authorization, LAMBDA piece : piece # "Bearer ") # <<AUTH_TOKEN>>
    THEN Raise([status_code |-> 401, detail |-> "Invalid token"])
    ELSE Ok(AUTH_TOKEN)

\* hackrx_run: the response, the return statement it left through (path), the
\* statement of the try block an exception came from, if any (stage), and
\* what process_document did (pd).  verify_token is awaited inside the try
\* block, whose except clause answers every question from the fixed table;
\* so does the division by the number of questions when there is none.  An
\* answer is written as the question and the place it comes from.
hackrx_run(cache, vs, authorization, request, doc, ok, time) ==
    IF verify_token(authorization).raised
    THEN [status_code |-> 200,
          answers |-> [i \in 1..Len(request.questions) |->
                          [question |-> request.questions[i], from |-> "fallback"]],
          path |-> "fallback_answers", stage |-> "verify_token",
          pd |-> [ret |-> Ok(<<>>), cache |-> cache, vs |-> vs, fetches |-> 0,
                  path |-> "", stage |-> ""]]
    ELSE Only({ [status_code |-> 200,
                 answers |-> [i \in 1..Len(request.questions) |->
                                 [question |-> request.questions[i],
                                  from |-> IF pd.ret.raised THEN "fallback" ELSE "pipeline"]],
                 path |-> IF pd.ret.raised \/ request.questions = <<>>
                          THEN "fallback_answers" ELSE "answers",
                 stage |-> IF pd.ret.raised THEN "process_document"
                           ELSE IF request.questions = <<>> THEN "avg_confidence"
                           ELSE "",
                 pd |-> pd] :
                pd \in {process_document(cache, vs, request.documents, doc, ok, time)} })

\* ------------------------------------------------------------------ state
VARIABLES
    site,            \* the document every URL serves
    document_cache,  \* AdvancedDocumentProcessor.document_cache
    vector_store,    \* AdvancedDocumentProcessor.vector_store
    last,            \* the last call: its operation, arguments and outcome
    succeeded,       \* per URL, what the first call that left through the
                     \* success return gave back (<<>> before)
    observed,        \* per URL, how many process_document calls got its content
                     \* or its cache entry (counted up to 2), and their outcomes
    calls            \* the number of calls made so far; also the clock

vars == <<site, document_cache, vector_store, last, succeeded, observed, calls>>

NoCall ==
    [op |-> "none", url |-> "", text |-> <<>>, query |-> <<>>, top_k |-> 0,
     batch |-> <<>>, ret |-> Ok(<<>>), fetches |-> 0, path |-> "", stage |-> "",
     authorization |-> <<>>, questions |-> <<>>, kw |-> <<>>, ok |-> <<>>,
     start_index |-> 0]

EmptyCache == [k \in {} |-> <<>>]

\* The category of a chunk and its relevance weight (in hundredths).
Category(chunk) == GetAttr(chunk, "section_type", "general")
Weight(chunk) == GetAttr(chunk, "relevance_score", 0)

\* The multiset of (category, relevance weight) pairs of a chunk list.
Distribution(chunks) ==
    LET pairs == [i \in 1..Len(chunks) |-> <<Category(chunks[i]), Weight(chunks[i])>>]
    IN  [p \in {pairs[i] : i \in 1..Len(pairs)} |->
            Cardinality({i \in 1..Len(pairs) : pairs[i] = p})]

\* What a caller of process_document sees of the chunk set.
Outcome(ret) ==
    IF ret.raised THEN [raised |-> TRUE, distribution |-> Distribution(<<>>)]
    ELSE [raised |-> FALSE, distribution |-> Distribution(ret.value.chunks)]

InitProcessor ==
    /\ document_cache = EmptyCache
    /\ vector_store = NewVectorStore
    /\ last = NoCall
    /\ succeeded = [u \in URLs |-> <<>>]
    /\ observed = [u \in URLs |-> [n |-> 0, seen |-> {}]]
    /\ calls = 0

Init ==
    /\ site \in {f \in [URLs -> Docs] : \A u \in URLs : f[u] \in DocsOf(u)}
    /\ InitProcessor

\* await document_processor.process_document(url)
\* The call is one step: the coroutines it awaits (lines 144, 148, 153) hold
\* no await of their own, the download being a blocking requests.get, so the
\* event loop runs no other call before this one has returned.
ProcessDocument(u) ==
    /\ calls < MaxCalls
    /\ \E ok \in [1..DownloadAttempts -> BOOLEAN] :
          \E r \in {process_document(document_cache, vector_store, u, site[u], ok, calls)} :
              /\ document_cache' = r.cache
              /\ vector_store' = r.vs
              /\ last' = [NoCall EXCEPT !.op = "process_document", !.url = u, !.ok = ok,
                                        !.ret = r.ret, !.fetches = r.fetches,
                                        !.path = r.path, !.stage = r.stage]
              /\ succeeded' = IF r.path = "success" /\ succeeded[u] = <<>>
                              THEN [succeeded EXCEPT ![u] = <<r.ret.value>>]
                              ELSE succeeded
              /\ observed' = IF r.stage = "download_failed" THEN observed
                              ELSE [observed EXCEPT
                                       ![u] = [n |-> Min(@.n + 1, 2),
                                               seen |-> @.seen \cup {Outcome(r.ret)}]]
    /\ calls' = calls + 1
    /\ UNCHANGED site

\* await document_processor._create_intelligent_chunks(text, url)
CreateIntelligentChunks(text) ==
    /\ calls < MaxCalls
    /\ last' = [NoCall EXCEPT !.op = "_create_intelligent_chunks", !.text = text,
                              !.ret = Chunked[text]]
    /\ calls' = calls + 1
    /\ UNCHANGED <<site, document_cache, vector_store, succeeded, observed>>

\* await document_processor._extract_text_by_type(content, url), content being
\* the body the URL serves
ExtractTextByType(u) ==
    /\ calls < MaxCalls
    /\ last' = [NoCall EXCEPT !.op = "_extract_text_by_type", !.url = u,
                              !.ret = Ok(_extract_text_by_type(site[u], u))]
    /\ calls' = calls + 1
    /\ UNCHANGED <<site, document_cache, vector_store, succeeded, observed>>

\* document_processor._create_section_chunk(section_type, section_data, url,
\* len(chunks)) as the loop of the chunker calls it for section i of a text:
\* the section has content, and len(chunks) is the number of earlier sections
\* that had.  kw is what the call gives to DocumentChunk.
CreateSectionChunk(text, i) ==
    /\ calls < MaxCalls
    /\ Sections[text][i].content # <<>>
    /\ \E chunk_index \in {Cardinality({j \in 1..(i - 1) :
                                            Sections[text][j].content # <<>>})} :
           last' = [NoCall EXCEPT
                       !.op = "_create_section_chunk", !.text = text,
                       !.kw = SectionChunkArgs(Sections[text][i].section_type,
                                               Sections[text][i], "b", chunk_index),
                       !.ret = _create_section_chunk(Sections[text][i].section_type,
                                                     Sections[text][i], "b", chunk_index)]
    /\ calls' = calls + 1
    /\ UNCHANGED <<site, document_cache, vector_store, succeeded, observed>>

\* document_processor._create_general_chunks(text, url, start_index)
CreateGeneralChunks(text, start_index) ==
    /\ calls < MaxCalls
    /\ last' = [NoCall EXCEPT !.op = "_create_general_chunks", !.text = text,
                              !.start_index = start_index,
                              !.ret = _create_general_chunks(text, "b", start_index)]
    /\ calls' = calls + 1
    /\ UNCHANGED <<site, document_cache, vector_store, succeeded, observed>>

\* document_processor._count_tokens(text)
CountTokens(text) ==
    /\ calls < MaxCalls
    /\ last' = [NoCall EXCEPT !.op = "_count_tokens", !.text = text,
                              !.ret = Ok(_count_tokens(text))]
    /\ calls' = calls + 1
    /\ UNCHANGED <<site, document_cache, vector_store, succeeded, observed>>

\* vector_store.add_documents(batch)
AddDocuments(batch) ==
    /\ calls < MaxCalls
    /\ \E r \in {add_documents(vector_store, batch)} :
           /\ vector_store' = r.vs
           /\ last' = [NoCall EXCEPT !.op = "add_documents", !.batch = batch,
                                     !.ret = Ok(r.ret)]
    /\ calls' = calls + 1
    /\ UNCHANGED <<site, document_cache, succeeded, observed>>

\* vector_store.search(query, top_k)
Search(query, top_k) ==
    /\ calls < MaxCalls
    /\ last' = [NoCall EXCEPT !.op = "search", !.query = query, !.top_k = top_k,
                              !.ret = search(vector_store, query, top_k)]
    /\ calls' = calls + 1
    /\ UNCHANGED <<site, document_cache, vector_store, succeeded, observed>>

\* semantic_matcher.find_relevant_clauses(query, top_k)
FindRelevantClauses(query, top_k) ==
    /\ calls < MaxCalls
    /\ last' = [NoCall EXCEPT !.op = "find_relevant_clauses", !.query = query,
                              !.top_k = top_k,
                              !.ret = find_relevant_clauses(vector_store, query, top_k)]
    /\ calls' = calls + 1
    /\ UNCHANGED <<site, document_cache, vector_store, succeeded, observed>>

\* document_processor.search_document_semantically(query, top_k)
SearchDocumentSemantically(query, top_k) ==
    /\ calls < MaxCalls
    /\ last' = [NoCall EXCEPT !.op = "search_document_semantically", !.query = query,
                              !.top_k = top_k,
                              !.ret = search_document_semantically(vector_store, query, top_k)]
    /\ calls' = calls + 1
    /\ UNCHANGED <<site, document_cache, vector_store, succeeded, observed>>

\* POST /hackrx/run with an Authorization header, a document URL and questions
HackrxRun(authorization, u, questions) ==
    /\ calls < MaxCalls
    /\ \E ok \in [1..DownloadAttempts -> BOOLEAN] :
          \E r \in {hackrx_run(document_cache, vector_store, authorization,
                                [documents |-> u, questions |-> questions],
                                site[u], ok, calls)} :
              /\ document_cache' = r.pd.cache
              /\ vector_store' = r.pd.vs
              /\ last' = [NoCall EXCEPT !.op = "hackrx_run", !.url = u,
                                        !.authorization = authorization,
                                        !.questions = questions,
                                        !.ret = Ok([status_code |-> r.status_code,
                                                    answers |-> r.answers]),
                                        !.fetches = r.pd.fetches,
                                        !.path = r.path, !.stage = r.stage]
              /\ succeeded' = IF r.pd.path = "success" /\ succeeded[u] = <<>>
                              THEN [succeeded EXCEPT ![u] = <<r.pd.ret.value>>]
                              ELSE succeeded
              /\ observed' = IF r.pd.stage \in {"", "download_failed"} THEN observed
                              ELSE [observed EXCEPT
                                       ![u] = [n |-> Min(@.n + 1, 2),
                                               seen |-> @.seen \cup {Outcome(r.pd.ret)}]]
    /\ calls' = calls + 1
    /\ UNCHANGED site

\* The processor: documents are processed and chunked, and the shared store
\* also takes chunks from its other callers.
Next ==
    \/ \E u \in URLs : ProcessDocument(u)
    \/ \E text \in Texts : CreateIntelligentChunks(text)
    \/ \E text \in Texts : CountTokens(text)
    \/ \E text \in Texts, start_index \in {0, GeneralSectionLimit} :
           CreateGeneralChunks(text, start_index)
    \/ \E text \in Texts, i \in 1..Len(policy_patterns) : CreateSectionChunk(text, i)
    \/ \E u \in URLs : ExtractTextByType(u)
    \/ \E batch \in {b \in Batches : Len(b) = 1} : AddDocuments(batch)

Spec == Init /\ [][Next]_vars

\* The vector store and its matcher on their own.
InitIndex ==
    /\ site = [u \in URLs |-> Doc("none", TRUE, <<>>)]
    /\ InitProcessor

NextIndex ==
    \/ \E batch \in Batches : AddDocuments(batch)
    \/ \E query \in Queries, top_k \in TopKs : Search(query, top_k)
    \/ \E i \in 1..Len(vector_store.chunks) : Search(vector_store.chunks[i].content, 1)
    \/ \E query \in Queries, top_k \in TopKs : FindRelevantClauses(query, top_k)
    \/ \E query \in Queries, top_k \in TopKs : SearchDocumentSemantically(query, top_k)

SpecIndex == InitIndex /\ [][NextIndex]_vars

\* The service: requests to the endpoint, next to direct uses of its processor.
NextApi ==
    \/ \E authorization \in Authorizations, u \in URLs,
          questions \in {<<>>, <<"Test question">>} :
           HackrxRun(authorization, u, questions)
    \/ \E u \in URLs : ProcessDocument(u)

SpecApi == Init /\ [][NextApi]_vars

\* ------------------------------------------------------------------ process_document: its result
\* The result is the fixed single-chunk fallback set with an analysis whose
\* document_stats.processing_mode is 'fallback'.
IsFallbackPair(ret) ==
    /\ ~ret.raised
    /\ Len(ret.value.chunks) = 1
    /\ ret.value.chunks[1].content = Strip(fallback_content)
    /\ GetAttr(ret.value.analysis.document_stats, "processing_mode", "") = "fallback"

\* The analysis of a returned pair has the degraded-mode flag set.
IsDegraded(ret) ==
    GetAttr(ret.value.analysis.document_stats, "processing_mode", "") = "fallback"

\* C1: a process_document call all of whose 3 download attempts failed returns
\* the fixed single-chunk fallback set with an analysis whose
\* document_stats.processing_mode is 'fallback'.
C1_FallbackWhenFetchFails ==
    (last.op = "process_document" /\ last.stage = "download_failed" /\
     last.fetches = DownloadAttempts)
        => IsFallbackPair(last.ret)

\* C2: whatever the download, the extraction, the chunking, the indexing and
\* the analysis did, a process_document call returns a pair (chunk list,
\* analysis) and raises nothing.
C2_NeverRaises ==
    last.op = "process_document"
        => /\ ~last.ret.raised
           /\ DOMAIN last.ret.value = {"chunks", "analysis"}

\* C3: what a process_document call returns after it extracted empty text
\* is the fallback pair, and no call returns an empty chunk list with an
\* analysis that is not flagged as degraded (a chunker that gave no chunks
\* leads to the fallback pair as well).
C3_FallbackWhenNothingExtracted ==
    (last.op = "process_document" /\ ~last.ret.raised)
        => /\ last.stage = "no_text" => IsFallbackPair(last.ret)
           /\ last.ret.value.chunks = <<>> => IsDegraded(last.ret)

\* C4: once a process_document call for a URL has left through the success
\* return, the cache entry of the URL stays as it is for ever, and every later
\* call for the URL returns the chunk list and analysis of that first call,
\* downloads nothing and leaves the vector store as it was.
C4_CacheServesLaterCalls ==
    [][\A u \in URLs :
          succeeded[u] # <<>> =>
              /\ CacheKey(u) \in DOMAIN document_cache
              /\ CacheKey(u) \in DOMAIN document_cache'
              /\ document_cache'[CacheKey(u)] = document_cache[CacheKey(u)]
              /\ (calls' # calls /\ last'.op = "process_document" /\ last'.url = u)
                     => /\ last'.ret = Ok(succeeded[u][1])
                        /\ last'.path = "cache"
                        /\ last'.fetches = 0
                        /\ vector_store' = vector_store]_vars

\* A URL was processed with success, the store then took a chunk from another
\* caller, and a later call for the URL was served from the cache.
C4_Witness ==
    /\ last.op = "process_document"
    /\ last.path = "cache"
    /\ succeeded[last.url] # <<>>
    /\ last.ret = Ok(succeeded[last.url][1])
    /\ Len(vector_store.chunks) > 0

\* C5: two process_document calls for one URL whose content did not change
\* both give a chunk set, and the two sets have the same multiset of
\* (category, relevance weight) pairs, cached or recomputed.
C5_SameDistributionTwice ==
    \A u \in URLs :
        observed[u].n = 2 =>
            \E o \in observed[u].seen : observed[u].seen = {o} /\ ~o.raised

\* ------------------------------------------------------------------ the chunker: its result
\* text[at..] starts with the tokens of phrase.
StartsAt(text, at, phrase) ==
    /\ at + Len(phrase) - 1 <= Len(text)
    /\ \A i \in 1..Len(phrase) : text[at + i - 1] = phrase[i]

\* phrase in text
Contains(text, phrase) == \E at \in 1..Len(text) : StartsAt(text, at, phrase)

\* A text that cleaning leaves as it is.
IsCleaned(text) == _clean_extracted_text(text) = text

\* C6: on a non-empty cleaned text the chunker returns a non-empty list of at
\* most 20 chunks, the content of each non-empty after trimming and at most
\* 2000 characters long.
C6_ChunkerBounds ==
    (last.op = "_create_intelligent_chunks" /\ last.text # <<>> /\ IsCleaned(last.text))
        => /\ ~last.ret.raised
           /\ Len(last.ret.value) \in 1..MaxChunks
           /\ \A i \in 1..Len(last.ret.value) :
                  /\ Strip(last.ret.value[i].content) # <<>>
                  /\ StrLen(last.ret.value[i].content) <= MaxSectionContent

\* C7: on a text that contains "grace period of thirty days" the chunker
\* returns a list with a chunk of category grace_period whose relevance
\* weight is above 0.
C7_GracePeriodThirtyDays ==
    (last.op = "_create_intelligent_chunks" /\ Contains(last.text, TextThirty))
        => /\ ~last.ret.raised
           /\ \E i \in 1..Len(last.ret.value) :
                  /\ Category(last.ret.value[i]) = "grace_period"
                  /\ Weight(last.ret.value[i]) > 0

\* ------------------------------------------------------------------ the vector store: its state
\* C8: the vocabulary is fitted on the first batch that the store takes and
\* on no later one: once fitted the store stays fitted with the vocabulary it
\* has, the step that fits it learns the vocabulary of the batch it stores
\* into the empty store, and every later batch is transformed with that
\* vocabulary.
C8_FittedOnceOnFirstBatch ==
    [][/\ vector_store.vectorizer_fitted
              => /\ vector_store'.vectorizer_fitted
                 /\ vector_store'.vocabulary = vector_store.vocabulary
       /\ (~vector_store.vectorizer_fitted /\ vector_store'.vectorizer_fitted)
              => /\ vector_store.chunks = <<>>
                 /\ vector_store'.chunks = last'.batch
                 /\ vector_store'.vocabulary = FitVocabulary(ContentOf(last'.batch))
       /\ (vector_store.vectorizer_fitted /\ vector_store'.chunks # vector_store.chunks)
              => /\ vector_store'.chunks = vector_store.chunks \o last'.batch
                 /\ vector_store'.document_vectors.rows =
                        vector_store.document_vectors.rows \o
                            Transform(ContentOf(last'.batch), vector_store.vocabulary)
       /\ ~vector_store'.vectorizer_fitted => vector_store'.chunks = <<>>]_vars

\* A fitted store has taken a later batch whose text holds a term that the
\* vocabulary does not.
C8_Witness ==
    /\ last.op = "add_documents"
    /\ last.ret = Ok(TRUE)
    /\ Len(vector_store.chunks) > Len(last.batch)
    /\ \E i \in 1..Len(last.batch) :
           ~(TermSet(last.batch[i].content) \subseteq vector_store.vocabulary)

\* C9: every stored chunk has exactly one vector: document_vectors has as
\* many rows as the store has chunks (none while it has no chunk), and row i
\* is the representation of chunk i in the vocabulary of the store.
C9_OneVectorPerChunk ==
    /\ vector_store.document_vectors.none <=> vector_store.chunks = <<>>
    /\ Len(vector_store.document_vectors.rows) = Len(vector_store.chunks)
    /\ Len(vector_store.chunk_metadata) = Len(vector_store.chunks)
    /\ \A i \in 1..Len(vector_store.chunks) :
           vector_store.document_vectors.rows[i] =
               Row(vector_store.chunks[i].content, vector_store.vocabulary)

\* A store that holds the chunks of two batches has just refused a third.
C9_Witness ==
    /\ last.op = "add_documents"
    /\ last.ret = Ok(FALSE)
    /\ Len(vector_store.chunks) >= 2
    /\ vector_store.chunks[1].id # vector_store.chunks[Len(vector_store.chunks)].id

\* C10: while the store holds no chunk, search, find_relevant_clauses and
\* search_document_semantically return the empty list, whatever the query and
\* top_k, and raise nothing.
C10_EmptyStoreFindsNothing ==
    (last.op \in {"search", "find_relevant_clauses", "search_document_semantically"} /\
     vector_store.chunks = <<>>)
        => last.ret = Ok(<<>>)

\* A store that refused its only batch was searched with a query of several
\* words.
C10_Witness ==
    /\ last.op \in {"search", "find_relevant_clauses", "search_document_semantically"}
    /\ vector_store.chunks = <<>>
    /\ Len(last.query) > 1
    /\ last.top_k > 0
    /\ calls >= 2
    /\ last.ret = Ok(<<>>)

\* ------------------------------------------------------------------ the index: errors
\* C11: no add_documents call and no search call raises; an add_documents
\* call whose vectorization fails (a text that is not a str, or a first batch
\* none of whose texts holds a word the vectorizer keeps) returns False, and
\* a search call whose body raises returns the empty list.
C11_IndexCatchesErrors ==
    [][ /\ last'.op = "add_documents"
            => /\ last'.ret \in {Ok(TRUE), Ok(FALSE)}
               /\ ( /\ last'.batch # <<>>
                    /\ \/ \E i \in 1..Len(last'.batch) : ~IsStr(last'.batch[i].content)
                       \/ /\ ~vector_store.vectorizer_fitted
                          /\ \A i \in 1..Len(last'.batch) :
                                 Analyze(last'.batch[i].content) = <<>> )
                  => last'.ret = Ok(FALSE)
        /\ last'.op = "search"
            => /\ ~last'.ret.raised
               /\ SearchBody(vector_store, last'.query, last'.top_k).raised
                      => last'.ret = Ok(<<>>) ]_vars

\* A search with a query that is not a str, on a store that holds chunks, has
\* returned the empty list.
C11_Witness ==
    /\ last.op = "search"
    /\ vector_store.vectorizer_fitted
    /\ Len(vector_store.chunks) > 0
    /\ ~IsStr(last.query)
    /\ last.ret = Ok(<<>>)

\* ------------------------------------------------------------------ the index: round trip
\* C12: a search for the one best match (top_k = 1) whose query is the
\* content of a chunk the store holds returns exactly one result, and that
\* result is a chunk with this content.
C12_OwnContentIsTop1 ==
    (last.op = "search" /\ last.top_k = 1 /\
     \E i \in 1..Len(vector_store.chunks) : vector_store.chunks[i].content = last.query)
        => /\ ~last.ret.raised
           /\ Len(last.ret.value) = 1
           /\ last.ret.value[1].chunk.content = last.query

\* ------------------------------------------------------------------ the matcher: ranking
\* ret is a best-first selection of top_k of the candidates cand: no longer
\* than top_k, as long as the candidates allow, combined scores never rising,
\* each entry a candidate of its own, and no candidate left out that scores
\* higher than the last entry.
C13_IsTopKOf(ret, cand, top_k) ==
    /\ Len(ret) <= top_k
    /\ Len(ret) = Min(top_k, Len(cand))
    /\ \A i \in 1..Len(ret) : \A j \in i..Len(ret) :
           ret[i].combined_score >= ret[j].combined_score
    /\ \E f \in [1..Len(ret) -> 1..Len(cand)] :
           /\ \A i \in 1..Len(ret) : \A j \in 1..Len(ret) : f[i] = f[j] => i = j
           /\ \A i \in 1..Len(ret) :
                  /\ ret[i].chunk_id = cand[f[i]].chunk_id
                  /\ ret[i].content = cand[f[i]].content
                  /\ ret[i].similarity_score = cand[f[i]].similarity_score
           /\ \A j \in 1..Len(cand) :
                  (\A i \in 1..Len(ret) : f[i] # j)
                      => \A i \in 1..Len(ret) :
                             ret[i].combined_score >=
                                 7 * cand[j].similarity_score
                                 + 25 * _calculate_pattern_score(last.query, cand[j].content)

\* C13: what find_relevant_clauses(query, top_k) returns has at most top_k
\* entries, its combined_score never rises from one entry to the next, and
\* it is the top_k by combined score of the candidates the index returns for
\* 2 * top_k.
C13_RankedTopK ==
    last.op = "find_relevant_clauses"
        => /\ ~last.ret.raised
           /\ C13_IsTopKOf(last.ret.value,
                           semantic_search_with_metadata(vector_store, last.query,
                                                         2 * last.top_k).value,
                           last.top_k)

\* The matcher has returned two of three candidates, and its first entry is
\* not the first candidate of the index.
C13_Witness ==
    /\ last.op = "find_relevant_clauses"
    /\ last.top_k = 2
    /\ ~last.ret.raised
    /\ Len(last.ret.value) = 2
    /\ Len(semantic_search_with_metadata(vector_store, last.query, 4).value) = 3
    /\ last.ret.value[1].chunk_id #
           semantic_search_with_metadata(vector_store, last.query, 4).value[1].chunk_id

\* ------------------------------------------------------------------ the matcher: scores
\* The fraction, in twelfths, of the patterns of clause type i that occur in
\* both the query and the content.
C14_Fraction12(i, query, content) ==
    (12 * Cardinality({p \in 1..Len(clause_patterns[i].patterns) :
                          /\ ClausePatternIn(clause_patterns[i].patterns[p], query)
                          /\ ClausePatternIn(clause_patterns[i].patterns[p], content)}))
        \div Len(clause_patterns[i].patterns)

\* C14: in every result of find_relevant_clauses, pattern_score is the
\* largest, over the clause types, of the fraction of the type's patterns
\* found in both the query and the content; it lies between 0 and 1 (12
\* twelfths); and combined_score is 0.7 * similarity_score + 0.3 *
\* pattern_score (in thousandths: 7 * hundredths + 25 * twelfths).
C14_PatternAndCombinedScore ==
    (last.op = "find_relevant_clauses" /\ ~last.ret.raised)
        => \A r \in 1..Len(last.ret.value) :
               /\ \E i \in 1..Len(clause_patterns) :
                      last.ret.value[r].pattern_score =
                          C14_Fraction12(i, last.query, last.ret.value[r].content)
               /\ \A i \in 1..Len(clause_patterns) :
                      last.ret.value[r].pattern_score >=
                          C14_Fraction12(i, last.query, last.ret.value[r].content)
               /\ last.ret.value[r].pattern_score \in 0..12
               /\ last.ret.value[r].combined_score =
                      7 * last.ret.value[r].similarity_score
                      + 25 * last.ret.value[r].pattern_score

\* The matcher has returned a result that is similar to the query and shares
\* a pattern with it.
C14_Witness ==
    /\ last.op = "find_relevant_clauses"
    /\ ~last.ret.raised
    /\ \E r \in 1..Len(last.ret.value) :
           /\ last.ret.value[r].pattern_score > 0
           /\ last.ret.value[r].similarity_score > 0

\* ------------------------------------------------------------------ the matcher: clause type
\* C15: in every result of find_relevant_clauses, clause_type is "general"
\* exactly when no clause type has a pattern in both the query and the
\* content, and otherwise names the clause type with the largest fraction of
\* its patterns in both, the first declared of those with the largest; and a
\* query that holds "cataract surgery" labels the content "cataract surgery
\* waiting two years" cataract with a pattern score above zero.
C15_LabelIsBestFraction ==
    (last.op = "find_relevant_clauses" /\ ~last.ret.raised)
        => \A r \in 1..Len(last.ret.value) :
               /\ last.ret.value[r].clause_type = "general"
                      <=> \A i \in 1..Len(clause_patterns) :
                              C14_Fraction12(i, last.query, last.ret.value[r].content) = 0
               /\ \A i \in 1..Len(clause_patterns) :
                      last.ret.value[r].clause_type = clause_patterns[i].name
                          => \A j \in 1..Len(clause_patterns) :
                                 /\ C14_Fraction12(j, last.query, last.ret.value[r].content)
                                        <= C14_Fraction12(i, last.query, last.ret.value[r].content)
                                 /\ j < i =>
                                        C14_Fraction12(j, last.query, last.ret.value[r].content)
                                            < C14_Fraction12(i, last.query, last.ret.value[r].content)
               /\ ( /\ ClausePatternIn("cataract surgery", last.query)
                    /\ last.ret.value[r].content =
                           <<Phrase("cs"), Sp(1), Phrase("wt"), Sp(1), Phrase("yr")>> )
                      => /\ last.ret.value[r].clause_type = "cataract"
                         /\ last.ret.value[r].pattern_score > 0

\* ------------------------------------------------------------------ _count_tokens: the fallback
\* C16: the token count of a text that the tokenizer refuses is its number
\* of whitespace-separated words times 1.3 rounded to the nearest integer
\* (either neighbour when the product lies half way).
C16_FallbackIsRounded ==
    (last.op = "_count_tokens" /\ EncodeRaises(last.text))
        => /\ ~last.ret.raised
           /\ (10 * last.ret.value - 13 * WordCount(last.text)) \in -5..5

\* ------------------------------------------------------------------ _extract_text_by_type
\* C17: an _extract_text_by_type call raises nothing and returns a string;
\* the string is empty when the body is read as a PDF or as a DOCX and is not
\* a valid file of that format, and when it is a PDF none of whose pages
\* yields text.
C17_ExtractorReturnsString ==
    last.op = "_extract_text_by_type"
        => /\ ~last.ret.raised
           /\ IsStr(last.ret.value)
           /\ ( /\ EndsWith(last.url, {".pdf"}) \/ site[last.url].magic = "pdf"
                /\ \/ site[last.url].magic # "pdf"
                   \/ ~site[last.url].valid
                   \/ \A i \in 1..Len(site[last.url].parts) :
                          site[last.url].parts[i].text = <<>> )
                  => last.ret.value = <<>>
           /\ ( /\ ~(EndsWith(last.url, {".pdf"}) \/ site[last.url].magic = "pdf")
                /\ EndsWith(last.url, {".docx", ".doc"}) \/ site[last.url].magic = "zip"
                /\ site[last.url].magic # "zip" \/ ~site[last.url].valid )
                  => last.ret.value = <<>>

\* The extractor has returned the empty string for a valid PDF that has a
\* page and no page with text.
C17_Witness ==
    /\ last.op = "_extract_text_by_type"
    /\ site[last.url].magic = "pdf"
    /\ site[last.url].valid
    /\ Len(site[last.url].parts) > 0
    /\ \A i \in 1..Len(site[last.url].parts) : site[last.url].parts[i].text = <<>>
    /\ last.ret = Ok(<<>>)

\* ------------------------------------------------------------------ POST /hackrx/run: the token
\* C18: a POST /hackrx/run whose Authorization header is not "Bearer "
\* followed by the expected token is answered with status 401 and without
\* answers, and stops before process_document and the questions.
C18_UnauthorizedIsRejected ==
    (last.op = "hackrx_run" /\ last.authorization # <<"Bearer ", AUTH_TOKEN>>)
        => /\ last.ret.value.status_code = 401
           /\ last.ret.value.answers = <<>>
           /\ last.stage = "verify_token"

\* ------------------------------------------------------------------ the chunker: chunk ids
\* C19: a _create_intelligent_chunks call returns a chunk list (it raises
\* nothing) in which no two chunks have the same id.
C19_ChunkIdsUnique ==
    last.op = "_create_intelligent_chunks"
        => /\ ~last.ret.raised
           /\ \A i \in 1..Len(last.ret.value) : \A j \in 1..Len(last.ret.value) :
                  last.ret.value[i].id = last.ret.value[j].id => i = j

C21_AtMostThreeAttempts ==
    (last.op = "process_document" /\ last.path # "cache")
        => /\ last.fetches \in 1..DownloadAttempts
           /\ \A i \in 1..(last.fetches - 1) : ~last.ok[i]
           /\ last.fetches < DownloadAttempts => last.ok[last.fetches]
           /\ last.stage = "download_failed"
                  <=> \A i \in 1..DownloadAttempts : ~last.ok[i]

\* A call has stopped fetching at its second attempt, which followed a failed
\* one and succeeded.
C21_Witness ==
    /\ last.op = "process_document"
    /\ last.path # "cache"
    /\ last.fetches = 2
    /\ ~last.ok[1]
    /\ last.ok[2]

\* ------------------------------------------------------------------ the chunker: order
\* C22: a _create_intelligent_chunks call returns a list (it raises nothing)
\* of at most 20 chunks whose relevance weight never rises from one chunk to
\* the next, and among chunks of equal weight a category chunk is never
\* behind a general chunk.
C22_SortedByRelevance ==
    last.op = "_create_intelligent_chunks"
        => /\ ~last.ret.raised
           /\ Len(last.ret.value) <= MaxChunks
           /\ \A i \in 1..Len(last.ret.value) : \A j \in i..Len(last.ret.value) :
                  /\ Weight(last.ret.value[i]) >= Weight(last.ret.value[j])
                  /\ ( /\ Weight(last.ret.value[i]) = Weight(last.ret.value[j])
                       /\ Category(last.ret.value[j]) # "general" )
                         => Category(last.ret.value[i]) # "general"

\* ------------------------------------------------------------------ the chunker: general pass
\* The characters of a text that are no whitespace.
RECURSIVE C23_NonBlank(_)
C23_NonBlank(s) ==
    IF s = <<>> THEN 0
    ELSE (IF Head(s).k = "sp" THEN 0
          ELSE IF IsWhole(Head(s)) THEN Head(s).n - KindBlanks(Head(s).k)
          ELSE Head(s).n) + C23_NonBlank(Tail(s))

\* The starts of the windows that become general chunks: none when 5 or more
\* category chunks exist, else the multiples of 800 inside the first 5000
\* characters whose window of 1000 characters has more than 100 characters
\* that are no whitespace.
C23_Starts(text, start_index) ==
    IF start_index >= GeneralSectionLimit THEN {}
    ELSE {i \in 0..(Min(StrLen(text), GeneralScanLimit) - 1) :
             /\ i % (chunk_size - overlap) = 0
             /\ C23_NonBlank(Slice(text, i, i + chunk_size)) > MinGeneralLen}

\* C23: a _create_general_chunks call returns (it raises nothing) one chunk
\* for every window that qualifies and no other: none when 5 or more
\* category chunks exist; each chunk is "general", has relevance weight 0.3
\* and holds a qualifying window.
C23_GeneralPass ==
    last.op = "_create_general_chunks"
        => /\ ~last.ret.raised
           /\ Len(last.ret.value) = Cardinality(C23_Starts(last.text, last.start_index))
           /\ \A k \in 1..Len(last.ret.value) :
                  /\ Category(last.ret.value[k]) = "general"
                  /\ Weight(last.ret.value[k]) = 30
                  /\ \E i \in C23_Starts(last.text, last.start_index) :
                         last.ret.value[k].content = Slice(last.text, i, i + chunk_size)

\* ------------------------------------------------------------------ the index: top-k
\* The similarity, in hundredths, of a query to the stored vector j.
C24_Similarity(query, j) ==
    Cosine100(Row(query, vector_store.vocabulary), vector_store.document_vectors.rows[j])

\* ret holds top_k of the stored chunks, or all of them when there are fewer:
\* each entry is a stored chunk of its own with its similarity to the query,
\* the similarities never rise, and no chunk left out is more similar than a
\* returned one.
C24_IsTopK(ret, query, top_k) ==
    /\ Len(ret) = Min(top_k, Len(vector_store.chunks))
    /\ \A i \in 1..Len(ret) : \A j \in i..Len(ret) : ret[i].score >= ret[j].score
    /\ \E f \in [1..Len(ret) -> 1..Len(vector_store.chunks)] :
           /\ \A i \in 1..Len(ret) : \A j \in 1..Len(ret) : f[i] = f[j] => i = j
           /\ \A i \in 1..Len(ret) :
                  /\ ret[i].chunk = vector_store.chunks[f[i]]
                  /\ ret[i].score = C24_Similarity(query, f[i])
           /\ \A j \in 1..Len(vector_store.chunks) :
                  (\A i \in 1..Len(ret) : f[i] # j)
                      => \A i \in 1..Len(ret) : ret[i].score >= C24_Similarity(query, j)

\* C24: a search(query, top_k) call with a text as query, on a store of N
\* chunks, returns min(top_k, N) pairs of a chunk and its similarity, the
\* similarities never rising, and leaves out no chunk that is more similar
\* to the query than a returned one.
C24_SearchReturnsTopK ==
    (last.op = "search" /\ IsStr(last.query))
        => /\ ~last.ret.raised
           /\ C24_IsTopK(last.ret.value, last.query, last.top_k)

\* A search has returned two of at least three stored chunks, the first more
\* similar to the query than the second.
C24_Witness ==
    /\ last.op = "search"
    /\ IsStr(last.query)
    /\ last.top_k = 2
    /\ Len(vector_store.chunks) >= 3
    /\ ~last.ret.raised
    /\ Len(last.ret.value) = 2
    /\ last.ret.value[1].score > last.ret.value[2].score

\* ------------------------------------------------------------------ the index: append-only
\* s is the beginning of t.
C25_IsPrefix(s, t) == Len(s) <= Len(t) /\ SubSeq(t, 1, Len(s)) = s

\* C25: every step keeps the stored chunks, their metadata and their vectors
\* where they are and as they are, new ones coming after them only; a search
\* of any kind leaves the store as it is.
C25_AppendOnly ==
    [][ /\ C25_IsPrefix(vector_store.chunks, vector_store'.chunks)
        /\ C25_IsPrefix(vector_store.chunk_metadata, vector_store'.chunk_metadata)
        /\ C25_IsPrefix(vector_store.document_vectors.rows,
                        vector_store'.document_vectors.rows)
        /\ last'.op \in {"search", "find_relevant_clauses", "search_document_semantically"}
               => vector_store' = vector_store ]_vars

\* A batch has been added to a store that held chunks before.
C25_Witness ==
    /\ last.op = "add_documents"
    /\ last.ret = Ok(TRUE)
    /\ Len(vector_store.chunks) > Len(last.batch)
    /\ Len(vector_store.document_vectors.rows) = Len(vector_store.chunks)

\* ------------------------------------------------------------------ the extractor: cleaned text
\* s holds two or more whitespace characters in a row.
C26_HasBlankRun(s) ==
    \/ \E i \in 1..Len(s) : s[i].k = "sp" /\ s[i].n >= 2
    \/ \E i \in 1..(Len(s) - 1) : s[i].k = "sp" /\ s[i + 1].k = "sp"

\* C26: whatever the format of the document, the text the extractor returns
\* holds no run of two or more whitespace characters.
C26_NoBlankRun ==
    last.op = "_extract_text_by_type" => ~C26_HasBlankRun(last.ret.value)

\* ------------------------------------------------------------------ the cache: whole entries
\* C27: over every step, every entry of the cache holds chunks, analysis and
\* timestamp together and is no fallback result; the entries of all keys but
\* the key of the call under way are what they were, no key leaves the cache,
\* and a call that ends in the fallback or in an exception writes nothing.
C27_CacheEntriesWhole ==
    [][ /\ \A k \in DOMAIN document_cache' :
               /\ DOMAIN document_cache'[k] = {"chunks", "analysis", "timestamp"}
               /\ ~IsDegraded(Ok(document_cache'[k]))
               /\ ~IsFallbackPair(Ok(document_cache'[k]))
        /\ \A k \in DOMAIN document_cache :
               /\ k \in DOMAIN document_cache'
               /\ k # CacheKey(last'.url) => document_cache'[k] = document_cache[k]
        /\ DOMAIN document_cache' \subseteq DOMAIN document_cache \cup {CacheKey(last'.url)}
        /\ (last'.path # "success" \/ last'.ret.raised)
               => document_cache' = document_cache ]_vars

\* A call has just written the entry of its URL into a cache that holds the
\* entry of the other URL, after a call that ended in the fallback.
C27_Witness ==
    /\ last.op = "process_document"
    /\ last.path = "success"
    /\ last.fetches > 0
    /\ DOMAIN document_cache = {CacheKey(u) : u \in URLs}
    /\ \E u \in URLs : observed[u].n = 2

\* ------------------------------------------------------------------ the index: a refused batch
\* C30: an add_documents call that returns False leaves the chunk list, the
\* chunk metadata, the vectors and the fitted flag of the store as they were.
C30_FailedAddChangesNothing ==
    [][ (calls' # calls /\ last'.op = "add_documents" /\ last'.ret = Ok(FALSE))
            => /\ vector_store'.chunks = vector_store.chunks
               /\ vector_store'.chunk_metadata = vector_store.chunk_metadata
               /\ vector_store'.document_vectors = vector_store.document_vectors
               /\ vector_store'.vectorizer_fitted = vector_store.vectorizer_fitted ]_vars

\* A batch that is not empty has been refused by a store that holds chunks.
C30_Witness ==
    /\ last.op = "add_documents"
    /\ last.ret = Ok(FALSE)
    /\ last.batch # <<>>
    /\ vector_store.vectorizer_fitted
    /\ Len(vector_store.chunks) > 0
    /\ Len(vector_store.chunk_metadata) = Len(vector_store.chunks)

====
